---- MODULE Spec2Model ----
(***************************************************************************)
(* Model of the bit-level core of tontools-js: the Builder (append-only    *)
(* accumulator of bits and refs), the Slice (its consuming reader), the    *)
(* augment/rollback padding pair and the MessageX composer.                *)
(*                                                                         *)
(* A thrown Error is modelled as a result record whose err field names the *)
(* failure; the object state carried in the record is the state the object *)
(* is left in when the exception reaches the caller.                       *)
(***************************************************************************)
EXTENDS Integers, Sequences, FiniteSets, TLC

VARIABLES
    b,      \* the Builder: its capacity, bits and refs
    s,      \* the Slice: its bits and refs
    orig,   \* the Slice as it was created
    last,   \* the last call: its name, input, outcome and the object before it
    nops,   \* the number of calls made so far
    log,    \* the fields stored so far, in order
    pc,     \* the phase of the run
    pad,    \* the padding run: input, augmented bits, rolled-back bits
    msg,    \* the MessageX run: its options and its outcome
    heap    \* the arrays allocated, and the Builders and nodes that hold them

vars == <<b, s, orig, last, nops, log, pc, pad, msg, heap>>

----------------------------------------------------------------------------
(* Bounds of the model.                                                    *)

\* capacity of the small Builder (the default one has DefaultSize bits)
SmallCap == 4
\* number of store calls made on one Builder
MaxOps == 2
\* widths 1..MaxWidth of the integer fields stored and loaded
MaxWidth == 2
\* a width beyond the 32-bit shift range of Slice.loadInt
WideWidth == 33
\* number of fields stored before the Slice is made
MaxFields == 2
\* number of calls made on one Slice
MaxLoads == 3
\* longest bit sequence handed to augmentBits
MaxPadLen == 9
\* longest of the bit sequences a Slice is made of, all of which are tried
MaxSliceBits == 4
\* largest of the small sizes handed to the Slice calls
MaxSize == 2
\* number of bits of the longer message header
MsgInfoBits == 500
\* most refs of a node handed to MessageX
MaxCellRefs == 1
\* number of calls made on the Builders that share one heap
MaxSnapOps == 4
\* widest of the fields 0..MaxNumWidth whose range checks are tried on every value
MaxNumWidth == 5

----------------------------------------------------------------------------
(* Program constants.                                                      *)

DefaultSize == 1023
MaxRefs == 4
AddressBitsSize == 267
HashBits == 256

Ok == "ok"
BitOverflow == "bits overflow"
RefOverflow == "refs overflow"
InvalidBit == "invalid bit"
RangeErr == "range error"
NegativeAmount == "negative coins"
BadAddressFlag == "bad address flag bits"
BadPadding == "incorrectly augmented bits"

----------------------------------------------------------------------------
(* Values.                                                                 *)

\* value >> i on a BigInt (arithmetic shift: floor division by 2^i)
RECURSIVE Shr(_, _)
Shr(v, i) == IF i <= 0 THEN v ELSE Shr(v \div 2, i - 1)

\* a sequence of n copies of x
Fill(n, x) == [i \in 1..n |-> x]

\* Array.prototype.reverse
Reverse(seq) == [i \in 1..Len(seq) |-> seq[Len(seq) + 1 - i]]

\* A Cell: its bits and its refs.
Cell(bits, refs) == [bits |-> bits, refs |-> refs]

\* A leaf cell told apart by its single bit pattern.
Leaf(n) == Cell(<<n % 2, (n \div 2) % 2>>, <<>>)

\* Address: workchain (int8) and hash (32 bytes); NoAddress is null / Address.NONE
NoAddress == [none |-> TRUE, workchain |-> 0, hash |-> <<>>]
Addr(wc, hash) == [none |-> FALSE, workchain |-> wc, hash |-> hash]

\* Coins: sign and magnitude in nanocoins, the magnitude as its base-256 digits,
\* most significant first, without leading zero digits (zero is <<>>).
CoinsVal(neg, mag) == [neg |-> neg, mag |-> mag]

\* Result of a call: the object as the call leaves it, and the error thrown (Ok: none).
Res(obj, err) == [b |-> obj, err |-> err]

\* The next call of a chain runs only when the previous one did not throw.
Then(r, Op(_)) == IF r.err # Ok THEN r ELSE Op(r.b)

----------------------------------------------------------------------------
(* utils/helpers (not in src/): modelled from the specification.           *)

\* stringToBytes: UTF-8 of a string given as its code points (below 2048)
RECURSIVE stringToBytes(_)
stringToBytes(str) ==
    IF str = <<>> THEN <<>>
    ELSE LET c == Head(str)
         IN (IF c < 128 THEN <<c>> ELSE <<192 + (c \div 64), 128 + (c % 64)>>)
            \o stringToBytes(Tail(str))

\* the unsigned value of a bit sequence, most significant bit first
RECURSIVE bitsToUint(_)
bitsToUint(bits) ==
    IF bits = <<>> THEN 0
    ELSE 2 * bitsToUint(SubSeq(bits, 1, Len(bits) - 1)) + bits[Len(bits)]

\* bitsToBytes: every 8 bits one byte, most significant bit first
bitsToBytes(bits) ==
    [i \in 1..(Len(bits) \div 8) |-> bitsToUint(SubSeq(bits, 8 * i - 7, 8 * i))]

\* bitsToInt8: 8 bits as a two's-complement number
bitsToInt8(bits) ==
    LET u == bitsToUint(bits) IN IF u >= 128 THEN u - 256 ELSE u

\* new Coins(hex, true) of bitsToHex(bits): the number the hex digits denote,
\* held as base-256 digits without leading zeros
RECURSIVE StripZeros(_)
StripZeros(bytes) ==
    IF bytes # <<>> /\ Head(bytes) = 0 THEN StripZeros(Tail(bytes)) ELSE bytes

coinsFromBits(bits) == CoinsVal(FALSE, StripZeros(bitsToBytes(bits)))

\* new Address(`${workchain}:${hash}`) of bitsToHex(bits)
addressFromBits(wc, bits) == Addr(wc, bitsToBytes(bits))

\* BigInt(nano).toString(16).length for a positive magnitude
HexLen(mag) == 2 * (Len(mag) - 1) + (IF Head(mag) >= 16 THEN 2 ELSE 1)

\* number of significant bits of a magnitude
RECURSIVE BitLen(_)
BitLen(n) == IF n = 0 THEN 0 ELSE 1 + BitLen(n \div 2)

MagBitLen(mag) == IF mag = <<>> THEN 0 ELSE 8 * (Len(mag) - 1) + BitLen(Head(mag))

\* (mag >> i) & 1n on a magnitude held as base-256 digits
MagBit(mag, i) ==
    LET k == Len(mag) - (i \div 8)
    IN IF k < 1 THEN 0 ELSE Shr(mag[k], i % 8) % 2

----------------------------------------------------------------------------
(* Builder                                                                 *)

NewBuilder(size) == [size |-> size, bits |-> <<>>, refs |-> <<>>]

remainder(bd) == bd.size - Len(bd.bits)

\* Faulty variant: the overflow check lets one bit too many through
checkBitsOverflowLate(bd, size) == size > remainder(bd) + 1

\* TRUE when checkBitsOverflow throws
checkBitsOverflow(bd, size) == size > remainder(bd)

\* TRUE when checkRefsOverflow throws
checkRefsOverflow(bd, size) == size > (MaxRefs - Len(bd.refs))

storeRef(bd, ref) ==
    IF checkRefsOverflow(bd, 1) THEN Res(bd, RefOverflow)
    ELSE Res([bd EXCEPT !.refs = Append(@, ref)], Ok)

storeBit(bd, bit) ==
    IF bit # 0 /\ bit # 1 THEN Res(bd, InvalidBit)
    ELSE IF checkBitsOverflow(bd, 1) THEN Res(bd, BitOverflow)
    ELSE Res([bd EXCEPT !.bits = Append(@, bit)], Ok)

\* bits.forEach(storeBit): call number i acts on the builder that holds the i - 1
\* bits before it, and the loop ends with the first call that throws
storeEachBit(bd, bits) ==
    LET before(i) == [bd EXCEPT !.bits = @ \o SubSeq(bits, 1, i - 1)]
        throws(i) == storeBit(before(i), bits[i]).err # Ok
    IN  IF \E i \in 1..Len(bits) : throws(i)
        THEN LET first == CHOOSE i \in 1..Len(bits) :
                              throws(i) /\ \A j \in 1..(i - 1) : ~throws(j)
             IN  storeBit(before(first), bits[first])
        ELSE Res(before(Len(bits) + 1), Ok)

storeBits(bd, bits) ==
    IF checkBitsOverflow(bd, Len(bits)) THEN Res(bd, BitOverflow)
    ELSE storeEachBit(bd, bits)

\* refs.forEach(storeRef)
RECURSIVE storeEachRef(_, _, _)
storeEachRef(r, refs, i) ==
    IF r.err # Ok \/ i > Len(refs) THEN r
    ELSE storeEachRef(storeRef(r.b, refs[i]), refs, i + 1)

storeSlice(bd, slice) ==
    IF checkBitsOverflow(bd, Len(slice.bits)) THEN Res(bd, BitOverflow)
    ELSE IF checkRefsOverflow(bd, Len(slice.refs)) THEN Res(bd, RefOverflow)
    ELSE storeEachRef(storeBits(bd, slice.bits), slice.refs, 1)

storeNumber(bd, value, length) ==
    storeBits(bd, Reverse([k \in 1..length |-> Shr(value, k - 1) % 2]))

\* Faulty variant: the upper end of the range compared with > in place of >=
storeIntUpTo(bd, value, length) ==
    IF length < 1
       \/ (Shr(value, length - 1) \notin {0, -1}
           /\ ~(Shr(value, length - 1) = 1 /\ Shr(value - 1, length - 1) = 0))
    THEN Res(bd, RangeErr)
    ELSE storeNumber(bd, value, length)

\* int < -intBits || int >= intBits with intBits = 1n << (length - 1): stated with >>,
\* so that no intermediate value leaves the checker's integers (for length 0 the
\* shift count is -1, intBits is 0n and every value is refused)
storeInt(bd, value, length) ==
    IF length < 1 \/ Shr(value, length - 1) \notin {0, -1} THEN Res(bd, RangeErr)
    ELSE storeNumber(bd, value, length)

\* uint < 0 || uint >= (1n << length), stated with >> likewise
storeUint(bd, value, length) ==
    IF value < 0 \/ Shr(value, length) # 0 THEN Res(bd, RangeErr)
    ELSE storeNumber(bd, value, length)

\* storeNumber of a magnitude held as base-256 digits
storeNumberMag(bd, mag, length) ==
    storeBits(bd, Reverse([k \in 1..length |-> MagBit(mag, k - 1)]))

\* storeUint of a magnitude held as base-256 digits
storeUintMag(bd, mag, length) ==
    IF MagBitLen(mag) > length THEN Res(bd, RangeErr)
    ELSE storeNumberMag(bd, mag, length)

\* Uint8Array.from(value).forEach(byte => storeUint(byte, 8)); the conversion
\* to Uint8Array takes every element modulo 256
RECURSIVE storeEachByte(_, _, _)
storeEachByte(r, bytes, i) ==
    IF r.err # Ok \/ i > Len(bytes) THEN r
    ELSE storeEachByte(storeUint(r.b, bytes[i] % 256, 8), bytes, i + 1)

storeBytes(bd, value) ==
    IF checkBitsOverflow(bd, Len(value) * 8) THEN Res(bd, BitOverflow)
    ELSE storeEachByte(Res(bd, Ok), value, 1)

storeString(bd, value) == storeBytes(bd, stringToBytes(value))

storeAddress(bd, address) ==
    IF address.none THEN storeBits(bd, <<0, 0>>)
    ELSE IF checkBitsOverflow(bd, AddressBitsSize) THEN Res(bd, BitOverflow)
    ELSE LET r1 == storeBits(bd, <<1, 0>>)
             r2 == Then(r1, LAMBDA x : storeUint(x, 0, 1))
             r3 == Then(r2, LAMBDA x : storeInt(x, address.workchain, 8))
         IN  Then(r3, LAMBDA x : storeBytes(x, address.hash))

\* Faulty variant: the number of bytes rounded down instead of up
storeCoinsFloor(bd, coins) ==
    IF coins.neg THEN Res(bd, NegativeAmount)
    ELSE IF coins.mag = <<>> THEN storeUint(bd, 0, 4)
    ELSE LET length == HexLen(coins.mag) \div 2
             size == length * 8
         IN  IF checkBitsOverflow(bd, 4 + size) THEN Res(bd, BitOverflow)
             ELSE Then(storeUint(bd, length, 4),
                       LAMBDA x : storeUintMag(x, coins.mag, size))

storeCoins(bd, coins) ==
    IF coins.neg THEN Res(bd, NegativeAmount)
    ELSE IF coins.mag = <<>> THEN storeUint(bd, 0, 4)
    ELSE LET length == (HexLen(coins.mag) + 1) \div 2
             size == length * 8
         IN  IF checkBitsOverflow(bd, 4 + size) THEN Res(bd, BitOverflow)
             ELSE Then(storeUint(bd, length, 4),
                       LAMBDA x : storeUintMag(x, coins.mag, size))

\* cell(): a node made of copies of the bits and the refs
cell(bd) == Cell(bd.bits, bd.refs)

\* Cell.parse(): a Slice over copies of the node's bits and refs
parse(c) == [bits |-> c.bits, refs |-> c.refs]

\* Faulty variant: the amount of padding taken for the bits over the last multiple
augmentBitsOver(bits, divider) ==
    LET amount == Len(bits) % divider
        overage == [i \in 1..amount |-> IF i = 1 THEN 1 ELSE 0]
    IN  IF Len(overage) # 0 /\ Len(overage) # divider THEN bits \o overage ELSE bits

\* augmentBits(bits, divider): the padding is left out when it would be a whole block
augmentBits(bits, divider) ==
    LET amount == divider - (Len(bits) % divider)
        overage == [i \in 1..amount |-> IF i = 1 THEN 1 ELSE 0]
    IN  IF Len(overage) # 0 /\ Len(overage) # divider THEN bits \o overage ELSE bits

\* Array.prototype.indexOf(1): the 0-based index of the first 1, or -1
indexOfOne(seq) ==
    IF \E i \in 1..Len(seq) : seq[i] = 1
    THEN (CHOOSE i \in 1..Len(seq) : seq[i] = 1 /\ \A j \in 1..(i - 1) : seq[j] # 1) - 1
    ELSE -1

\* Faulty variant: the flag bit is left in place: only the zeros behind it are removed
rollbackBitsKeepsFlag(bits) ==
    LET last7 == SubSeq(bits, IF Len(bits) > 7 THEN Len(bits) - 6 ELSE 1, Len(bits))
        index == indexOfOne(Reverse(last7))
    IN  IF index = -1 THEN [bits |-> bits, err |-> BadPadding]
        ELSE [bits |-> SubSeq(bits, 1, Len(bits) - index), err |-> Ok]

\* rollbackBits(bits): the bits returned, and the error thrown (Ok: none)
rollbackBits(bits) ==
    LET last7 == SubSeq(bits, IF Len(bits) > 7 THEN Len(bits) - 6 ELSE 1, Len(bits))
        index == indexOfOne(Reverse(last7))
    IN  IF index = -1 THEN [bits |-> bits, err |-> BadPadding]
        ELSE [bits |-> SubSeq(bits, 1, Len(bits) - (index + 1)), err |-> Ok]

\* MessageX, the init part: the presence bit, then the node inline or as a ref
messageInit(r0, init) ==
    IF init # <<>>
    THEN LET r1 == Then(r0, LAMBDA x : storeBit(x, 1))
         IN  IF r1.err # Ok THEN r1
             ELSE IF remainder(r1.b) - 1 >= Len(init[1].bits)
                  THEN Then(storeBit(r1.b, 0), LAMBDA x : storeSlice(x, parse(init[1])))
                  ELSE Then(storeBit(r1.b, 1), LAMBDA x : storeRef(x, init[1]))
    ELSE Then(r0, LAMBDA x : storeBit(x, 0))

\* MessageX, the body part: the node inline behind a 0, or as a ref behind a 1
messageBody(r1, body) ==
    IF r1.err # Ok THEN r1
    ELSE IF body # <<>>
         THEN IF remainder(r1.b) >= Len(body[1].bits)
              THEN Then(storeBit(r1.b, 0), LAMBDA x : storeSlice(x, parse(body[1])))
              ELSE Then(storeBit(r1.b, 1), LAMBDA x : storeRef(x, body[1]))
    ELSE storeBit(r1.b, 0)

\* MessageX up to the body part: the builder with the header and the init part
messageHead(options) ==
    messageInit(storeSlice(NewBuilder(DefaultSize), parse(options.info)), options.init)

\* MessageX(options): init and body are <<>> when left out, else <<node>>; the result
\* is the node returned, or the error thrown
MessageX(options) ==
    LET r2 == messageBody(messageHead(options), options.body)
    IN  [out |-> IF r2.err = Ok THEN cell(r2.b) ELSE Cell(<<>>, <<>>), err |-> r2.err]

----------------------------------------------------------------------------
(* Slice                                                                   *)

\* Result of a Slice call: the Slice as the call leaves it, the error thrown
\* (Ok: none) and the value returned (0 when it threw).
SRes(sl, err, ret) == [s |-> sl, err |-> err, ret |-> ret]

\* Array.prototype.splice(start, count): what it removes, and what it leaves
Removed(seq, start, count) ==
    SubSeq(seq, start + 1, IF start + count > Len(seq) THEN Len(seq) ELSE start + count)
Kept(seq, start, count) ==
    SubSeq(seq, 1, start) \o SubSeq(seq, start + (IF count < 0 THEN 0 ELSE count) + 1, Len(seq))

\* bytesToString (utils/helpers): UTF-8 decoding to code points, 65533 for a byte
\* that starts no one- or two-byte sequence
RECURSIVE bytesToString(_)
bytesToString(bytes) ==
    IF bytes = <<>> THEN <<>>
    ELSE IF Head(bytes) < 128 THEN <<Head(bytes)>> \o bytesToString(Tail(bytes))
    ELSE IF /\ Head(bytes) >= 192 /\ Head(bytes) < 224 /\ Len(bytes) >= 2
            /\ bytes[2] >= 128 /\ bytes[2] < 192
         THEN <<(Head(bytes) - 192) * 64 + (bytes[2] - 128)>>
              \o bytesToString(Tail(Tail(bytes)))
    ELSE <<65533>> \o bytesToString(Tail(bytes))

skip(sl, size) ==
    IF Len(sl.bits) < size THEN SRes(sl, BitOverflow, 0)
    ELSE SRes([sl EXCEPT !.bits = Kept(@, 0, size)], Ok, 0)

loadRef(sl) ==
    IF Len(sl.refs) = 0 THEN SRes(sl, RefOverflow, 0)
    ELSE SRes([sl EXCEPT !.refs = Tail(@)], Ok, Head(sl.refs))

preloadRef(sl) ==
    IF Len(sl.refs) = 0 THEN SRes(sl, RefOverflow, 0)
    ELSE SRes(sl, Ok, sl.refs[1])

loadBit(sl) ==
    IF Len(sl.bits) = 0 THEN SRes(sl, BitOverflow, 0)
    ELSE SRes([sl EXCEPT !.bits = Tail(@)], Ok, Head(sl.bits))

preloadBit(sl) ==
    IF Len(sl.bits) = 0 THEN SRes(sl, BitOverflow, 0)
    ELSE SRes(sl, Ok, sl.bits[1])

loadBits(sl, size) ==
    IF size <= 0 \/ Len(sl.bits) < size THEN SRes(sl, BitOverflow, 0)
    ELSE SRes([sl EXCEPT !.bits = Kept(@, 0, size)], Ok, Removed(sl.bits, 0, size))

preloadBits(sl, size) ==
    IF size <= 0 \/ Len(sl.bits) < size THEN SRes(sl, BitOverflow, 0)
    ELSE SRes(sl, Ok, SubSeq(sl.bits, 1, size))

\* bits.reverse().reduce((acc, bit, i) => bit * (2 ** i) + acc, 0) from index i on
\* (a 0 bit adds nothing: its power of two is not computed)
RECURSIVE reduceBits(_, _, _)
reduceBits(rev, i, acc) ==
    IF i > Len(rev) THEN acc
    ELSE reduceBits(rev, i + 1, (IF rev[i] = 0 THEN 0 ELSE rev[i] * (2 ^ (i - 1))) + acc)

\* 1 << n on 32-bit integers: the count is taken modulo 32 and bit 31 is the sign
shl1(n) == IF n % 32 = 31 THEN (-2147483647) - 1 ELSE 2 ^ (n % 32)

loadUint(sl, size) ==
    LET r == loadBits(sl, size)
    IN  IF r.err # Ok THEN r ELSE SRes(r.s, Ok, reduceBits(Reverse(r.ret), 1, 0))

preloadUint(sl, size) ==
    LET r == preloadBits(sl, size)
    IN  IF r.err # Ok THEN r ELSE SRes(r.s, Ok, reduceBits(Reverse(r.ret), 1, 0))

loadInt(sl, size) ==
    LET r == loadUint(sl, size)
        int == shl1(size - 1)
    IN  IF r.err # Ok THEN r
        ELSE SRes(r.s, Ok, IF r.ret >= int THEN r.ret - (int * 2) ELSE r.ret)

preloadInt(sl, size) ==
    LET r == preloadUint(sl, size)
        int == shl1(size - 1)
    IN  IF r.err # Ok THEN r
        ELSE SRes(r.s, Ok, IF r.ret >= int THEN r.ret - (int * 2) ELSE r.ret)

loadBytes(sl, size) ==
    LET r == loadBits(sl, size)
    IN  IF r.err # Ok THEN r ELSE SRes(r.s, Ok, bitsToBytes(r.ret))

preloadBytes(sl, size) ==
    LET r == preloadBits(sl, size)
    IN  IF r.err # Ok THEN r ELSE SRes(r.s, Ok, bitsToBytes(r.ret))

\* size is <<>> for the default, null, and <<n>> for the number n
loadString(sl, size) ==
    LET r == IF size = <<>> THEN loadBytes(sl, Len(sl.bits)) ELSE loadBytes(sl, size[1])
    IN  IF r.err # Ok THEN r ELSE SRes(r.s, Ok, bytesToString(r.ret))

preloadString(sl, size) ==
    LET r == IF size = <<>> THEN preloadBytes(sl, Len(sl.bits)) ELSE preloadBytes(sl, size[1])
    IN  IF r.err # Ok THEN r ELSE SRes(r.s, Ok, bytesToString(r.ret))

\* Faulty variant: the anycast bit is not taken out before the workchain is read
loadAddressKeepsAnycast(sl) ==
    LET flag == preloadBits(sl, 2)
    IN  IF flag.err # Ok THEN flag
        ELSE IF flag.ret = <<0, 0>> THEN SRes(skip(sl, 2).s, Ok, NoAddress)
        ELSE IF flag.ret = <<1, 0>>
             THEN LET size == 2 + 1 + 8 + 256
                      r == preloadBits(sl, size)
                      workchain == bitsToInt8(Removed(r.ret, 2, 8))
                      bits2 == Kept(r.ret, 2, 8 + 1)
                      hash == Removed(bits2, 2, 256)
                  IN  IF r.err # Ok THEN r
                      ELSE SRes(skip(sl, size).s, Ok, addressFromBits(workchain, hash))
        ELSE SRes(sl, BadAddressFlag, 0)

loadAddress(sl) ==
    LET flag == preloadBits(sl, 2)
    IN  IF flag.err # Ok THEN flag
        ELSE IF flag.ret = <<0, 0>> THEN SRes(skip(sl, 2).s, Ok, NoAddress)
        ELSE IF flag.ret = <<1, 0>>
             THEN LET size == 2 + 1 + 8 + 256
                      r == preloadBits(sl, size)
                      bits1 == Kept(r.ret, 2, 1)
                      workchain == bitsToInt8(Removed(bits1, 2, 8))
                      bits2 == Kept(bits1, 2, 8)
                      hash == Removed(bits2, 2, 256)
                  IN  IF r.err # Ok THEN r
                      ELSE SRes(skip(sl, size).s, Ok, addressFromBits(workchain, hash))
        ELSE SRes(sl, BadAddressFlag, 0)

preloadAddress(sl) ==
    LET flag == preloadBits(sl, 2)
    IN  IF flag.err # Ok THEN flag
        ELSE IF flag.ret = <<0, 0>> THEN SRes(sl, Ok, NoAddress)
        ELSE IF flag.ret = <<1, 0>>
             THEN LET size == 2 + 1 + 8 + 256
                      r == preloadBits(sl, size)
                      bits1 == Kept(r.ret, 2, 1)
                      workchain == bitsToInt8(Removed(bits1, 2, 8))
                      bits2 == Kept(bits1, 2, 8)
                      hash == Removed(bits2, 2, 256)
                  IN  IF r.err # Ok THEN r
                      ELSE SRes(sl, Ok, addressFromBits(workchain, hash))
        ELSE SRes(sl, BadAddressFlag, 0)

loadCoins(sl) ==
    LET length == preloadUint(sl, 4)
    IN  IF length.err # Ok THEN length
        ELSE IF length.ret = 0 THEN SRes(skip(sl, 4).s, Ok, CoinsVal(FALSE, <<>>))
        ELSE LET size == 4 + (length.ret * 8)
                 r == preloadBits(sl, size)
             IN  IF r.err # Ok THEN r
                 ELSE SRes(skip(sl, size).s, Ok,
                           coinsFromBits(Removed(r.ret, 4, Len(r.ret))))

\* Faulty variant: the peek consumes what it read, as loadCoins does
preloadCoinsSkips(sl) ==
    LET length == preloadUint(sl, 4)
    IN  IF length.err # Ok THEN length
        ELSE IF length.ret = 0 THEN SRes(skip(sl, 4).s, Ok, CoinsVal(FALSE, <<>>))
        ELSE LET size == 4 + (length.ret * 8)
                 r == preloadBits(sl, size)
             IN  IF r.err # Ok THEN r
                 ELSE SRes(skip(sl, size).s, Ok,
                           coinsFromBits(Removed(r.ret, 4, Len(r.ret))))

preloadCoins(sl) ==
    LET length == preloadUint(sl, 4)
    IN  IF length.err # Ok THEN length
        ELSE IF length.ret = 0 THEN SRes(sl, Ok, CoinsVal(FALSE, <<>>))
        ELSE LET size == 4 + (length.ret * 8)
                 r == preloadBits(sl, size)
             IN  IF r.err # Ok THEN r
                 ELSE SRes(sl, Ok, coinsFromBits(Removed(r.ret, 4, Len(r.ret))))

----------------------------------------------------------------------------
(* Inputs of the calls.                                                    *)

EmptySlice == [bits |-> <<>>, refs |-> <<>>]

Capacities == {SmallCap, DefaultSize}

BitInputs == {0, 1, 2}

\* as many bits as the small Builder holds, one bit more, and a sequence with an
\* element that is no bit
BitSeqInputs == {Fill(SmallCap, 1), Fill(SmallCap + 1, 0), <<1, 2, 0>>}

SliceInputs ==
    {[bits |-> <<0, 1>>, refs |-> <<Leaf(1)>>],
     [bits |-> <<>>, refs |-> <<Leaf(0), Leaf(1), Leaf(2), Leaf(3)>>],
     [bits |-> Fill(SmallCap + 1, 1), refs |-> <<Leaf(3)>>]}

RefInputs == {Leaf(0)}

Widths == 1..MaxWidth

\* every width with its largest value and the neighbours out of range
UintInputs ==
    {<<v, n>> \in (-1..(2 ^ MaxWidth)) \X Widths : v \in {-1, 2 ^ n - 1, 2 ^ n}}

IntInputs ==
    {<<v, n>> \in ((-(2 ^ (MaxWidth - 1)) - 1)..(2 ^ (MaxWidth - 1))) \X Widths :
        v \in {-(2 ^ (n - 1)) - 1, -(2 ^ (n - 1)), 2 ^ (n - 1)}}

BytesInputs == {<<255>>, <<1, 256>>}

\* "A", "é" as code points
StringInputs == {<<65>>, <<233>>}

AddressInputs ==
    {NoAddress,
     Addr(-1, Fill((HashBits \div 8), 255)),
     Addr(127, [i \in 1..(HashBits \div 8) |-> i])}

\* -1, 0, 255, 2^120 (16 bytes)
CoinsStoreInputs ==
    {CoinsVal(TRUE, <<1>>),
     CoinsVal(FALSE, <<>>),
     CoinsVal(FALSE, <<255>>),
     CoinsVal(FALSE, <<1>> \o Fill(15, 0))}

\* -1, 0, 1, 255, 256, 2^120 - 1 (15 bytes), 2^120 (16 bytes), 2^248 (32 bytes)
CoinsInputs ==
    {CoinsVal(TRUE, <<1>>),
     CoinsVal(FALSE, <<>>),
     CoinsVal(FALSE, <<1>>),
     CoinsVal(FALSE, <<255>>),
     CoinsVal(FALSE, <<1, 0>>),
     CoinsVal(FALSE, Fill(15, 255)),
     CoinsVal(FALSE, <<1>> \o Fill(15, 0)),
     CoinsVal(FALSE, <<1>> \o Fill(31, 0))}

NoPad == [in |-> <<>>, divider |-> 8, aug |-> <<>>, out |-> <<>>, err |-> Ok]
NoMsg == [info |-> Cell(<<>>, <<>>), init |-> <<>>, body |-> <<>>,
          mid |-> Res(NewBuilder(DefaultSize), Ok), out |-> Cell(<<>>, <<>>), err |-> Ok]

\* no array allocated, no Builder and no node
NoHeap == [arrays |-> <<>>, builders |-> <<>>, cells |-> <<>>]

\* what the last call was given and how it ended: op and arg name the call, err the
\* error thrown (Ok: none), pre the object before the call, k the number of bits the
\* call is to move, ret the value returned
Last(op, arg, err, pre, k, ret) ==
    [op |-> op, arg |-> arg, err |-> err, pre |-> pre, k |-> k, ret |-> ret]

----------------------------------------------------------------------------
(* Builder under any sequence of store calls.                              *)

InitBuilder ==
    /\ b \in {NewBuilder(c) : c \in Capacities}
    /\ s = EmptySlice
    /\ orig = EmptySlice
    /\ last = Last("new", 0, Ok, b, 0, 0)
    /\ nops = 0
    /\ log = <<>>
    /\ pc = "build"
    /\ pad = NoPad
    /\ msg = NoMsg
    /\ heap = NoHeap

\* a store call that ended as r, meant to append k bits
Stored(op, r, k) ==
    /\ pc = "build"
    /\ nops < MaxOps
    /\ b' = r.b
    /\ last' = Last(op, 0, r.err, b, k, 0)
    /\ nops' = nops + 1
    /\ UNCHANGED <<s, orig, log, pc, pad, msg, heap>>

StoreBit == \E bit \in BitInputs : Stored("storeBit", storeBit(b, bit), 1)

StoreBits == \E bits \in BitSeqInputs : Stored("storeBits", storeBits(b, bits), Len(bits))

StoreRef == \E ref \in RefInputs : Stored("storeRef", storeRef(b, ref), 0)

StoreSlice ==
    \E slice \in SliceInputs : Stored("storeSlice", storeSlice(b, slice), Len(slice.bits))

StoreUint == \E in \in UintInputs : Stored("storeUint", storeUint(b, in[1], in[2]), in[2])

StoreInt == \E in \in IntInputs : Stored("storeInt", storeInt(b, in[1], in[2]), in[2])

StoreBytes == \E bytes \in BytesInputs : Stored("storeBytes", storeBytes(b, bytes), 8 * Len(bytes))

StoreString ==
    \E str \in StringInputs :
        Stored("storeString", storeString(b, str),
               8 * (Len(str) + Cardinality({i \in 1..Len(str) : str[i] >= 128})))

StoreAddress ==
    \E a \in AddressInputs :
        Stored("storeAddress", storeAddress(b, a), IF a.none THEN 2 ELSE 2 + 1 + 8 + 256)

StoreCoins ==
    \E c \in CoinsStoreInputs : Stored("storeCoins", storeCoins(b, c), 4 + 8 * Len(c.mag))

NextBuilder ==
    \/ StoreBit
    \/ StoreBits
    \/ StoreRef
    \/ StoreSlice
    \/ StoreUint
    \/ StoreInt
    \/ StoreBytes
    \/ StoreString
    \/ StoreAddress
    \/ StoreCoins

SpecBuilder == InitBuilder /\ [][NextBuilder]_vars

\* C1: a store call that fails leaves the Builder's bits and refs exactly as they
\* were before the call.
C1_FailedStoreLeavesBuilder == last.err # Ok => (b.bits = last.pre.bits /\ b.refs = last.pre.refs)

\* C2: the bits never exceed the capacity and the refs never exceed four, so the
\* remainder is never negative, and a store call that succeeds lowers the remainder
\* by exactly the number of bits it stores.
C2_CapacityBounds ==
    /\ Len(b.bits) <= b.size
    /\ Len(b.refs) <= 4
    /\ remainder(b) >= 0
    /\ (last.op # "new" /\ last.err = Ok) => remainder(b) = remainder(last.pre) - last.k

\* the Builder of capacity SmallCap is full and the last store was refused for it
C2_Witness ==
    /\ b.size = SmallCap
    /\ Len(b.bits) = SmallCap
    /\ last.err = BitOverflow
    /\ last.k > 0

----------------------------------------------------------------------------
(* Round trips: fields stored in a Builder, read back from a Slice over    *)
(* the node the Builder makes.                                             *)

\* every width carries its boundary values and their out-of-range neighbours
UintFields ==
    {<<v, n>> \in (0..(2 ^ MaxWidth)) \X Widths : v \in {0, 2 ^ n - 1, 2 ^ n}}
    \cup {<<5, WideWidth>>}

IntFields ==
    {<<v, n>> \in ((-(2 ^ (MaxWidth - 1)) - 1)..(2 ^ (MaxWidth - 1))) \X Widths :
        v \in {-(2 ^ (n - 1)) - 1, -(2 ^ (n - 1)), -1, 2 ^ (n - 1) - 1, 2 ^ (n - 1)}}
    \cup {<<5, WideWidth>>}

\* two bits that are no address flag
FlagFields == {<<0, 1>>, <<1, 1>>}

Field(kind, v, n) == [kind |-> kind, v |-> v, n |-> n]

InitRT ==
    /\ b \in {NewBuilder(c) : c \in Capacities}
    /\ s = EmptySlice
    /\ orig = EmptySlice
    /\ last = Last("new", 0, Ok, b, 0, 0)
    /\ nops = 0
    /\ log = <<>>
    /\ pc = "build"
    /\ pad = NoPad
    /\ msg = NoMsg
    /\ heap = NoHeap

\* a store call of one field that ended as r; the field is logged when it was stored
Put(op, field, r) ==
    /\ pc = "build"
    /\ Len(log) < MaxFields
    /\ b' = r.b
    /\ log' = IF r.err = Ok THEN Append(log, field) ELSE log
    /\ last' = Last(op, field, r.err, b, 0, 0)
    /\ UNCHANGED <<s, orig, nops, pc, pad, msg, heap>>

PutUint ==
    \E in \in UintFields : Put("storeUint", Field("uint", in[1], in[2]), storeUint(b, in[1], in[2]))

PutInt ==
    \E in \in IntFields : Put("storeInt", Field("int", in[1], in[2]), storeInt(b, in[1], in[2]))

PutCoins == \E c \in CoinsInputs : Put("storeCoins", Field("coins", c, 0), storeCoins(b, c))

PutAddress ==
    \E a \in AddressInputs : Put("storeAddress", Field("address", a, 0), storeAddress(b, a))

PutFlag == \E bits \in FlagFields : Put("storeBits", Field("flag", bits, 0), storeBits(b, bits))

\* builder.cell().parse()
MakeSlice ==
    /\ pc = "build"
    /\ s' = parse(cell(b))
    /\ orig' = parse(cell(b))
    /\ pc' = "read"
    /\ last' = Last("parse", 0, Ok, b, 0, 0)
    /\ UNCHANGED <<b, nops, log, pad, msg, heap>>

\* a load call that ended as r, made where field number nops + 1 starts; a load that
\* succeeds moves on to the next field
Get(op, kinds, n, r) ==
    /\ pc = "read"
    /\ nops < Len(log)
    /\ log[nops + 1].kind \in kinds
    /\ log[nops + 1].n = n
    /\ s' = r.s
    /\ last' = Last(op, n, r.err, s, nops + 1, r.ret)
    /\ nops' = IF r.err = Ok THEN nops + 1 ELSE nops
    /\ UNCHANGED <<b, orig, log, pc, pad, msg, heap>>

GetUint == \E n \in Widths \cup {WideWidth} : Get("loadUint", {"uint"}, n, loadUint(s, n))

GetInt == \E n \in Widths \cup {WideWidth} : Get("loadInt", {"int"}, n, loadInt(s, n))

GetCoins == Get("loadCoins", {"coins"}, 0, loadCoins(s))

GetAddress == Get("loadAddress", {"address", "flag"}, 0, loadAddress(s))

NextRT ==
    \/ PutUint
    \/ PutInt
    \/ PutCoins
    \/ PutAddress
    \/ PutFlag
    \/ MakeSlice
    \/ GetUint
    \/ GetInt
    \/ GetCoins
    \/ GetAddress

SpecRT == InitRT /\ [][NextRT]_vars

\* the field a load call was made on
Loaded == log[last.k]

\* C3: loadUint(n) after storeUint(v, n), and loadInt(n) after storeInt(v, n),
\* return v, for every width n and every v in range.
C3_IntegerRoundTrip ==
    last.op \in {"loadUint", "loadInt"} => (last.err = Ok /\ last.ret = Loaded.v)

\* (for comparison) the same round trip for the widths below 32 bits
IntegerRoundTripNarrow ==
    (last.op \in {"loadUint", "loadInt"} /\ last.arg < 32)
        => (last.err = Ok /\ last.ret = Loaded.v /\ s.bits = SubSeq(last.pre.bits, last.arg + 1, Len(last.pre.bits)))

\* the 8 bits of a byte and the 4 bits of a length, most significant first
ByteBits(x) == [i \in 1..8 |-> (x \div (2 ^ (8 - i))) % 2]
NibbleBits(x) == [i \in 1..4 |-> (x \div (2 ^ (4 - i))) % 2]

RECURSIVE BytesBits(_)
BytesBits(bytes) ==
    IF bytes = <<>> THEN <<>> ELSE ByteBits(Head(bytes)) \o BytesBits(Tail(bytes))

\* the bits left of seq after its first n
Drop(seq, n) == SubSeq(seq, n + 1, Len(seq))

\* the layout of an amount: the 4-bit number of magnitude bytes, then the bytes
CoinsBits(c) == NibbleBits(Len(c.mag)) \o BytesBits(c.mag)

\* Coins round trip for the amounts whose magnitude takes at most maxBytes bytes:
\* storeCoins with room for the layout succeeds and appends exactly the layout, and
\* loadCoins gives the amount back and consumes exactly the layout.
CoinsRoundTrip(maxBytes) ==
    /\ (/\ last.op = "storeCoins"
        /\ ~last.arg.v.neg
        /\ Len(last.arg.v.mag) <= maxBytes
        /\ remainder(last.pre) >= 4 + 8 * Len(last.arg.v.mag))
       => (last.err = Ok /\ b.bits = last.pre.bits \o CoinsBits(last.arg.v)
                         /\ b.refs = last.pre.refs)
    /\ (last.op = "loadCoins" /\ Len(Loaded.v.mag) <= maxBytes)
       => (/\ last.err = Ok
           /\ last.ret = Loaded.v
           /\ s.bits = Drop(last.pre.bits, 4 + 8 * Len(Loaded.v.mag))
           /\ s.refs = last.pre.refs)

\* C6 (as stated): every non-negative amount of 0 to 32 magnitude bytes round-trips
\* through storeCoins and loadCoins.
C6_CoinsRoundTrip32 == CoinsRoundTrip(32)

\* C6 (amended): every non-negative amount of 0 to 15 magnitude bytes, the most
\* the 4-bit length can count, round-trips through storeCoins and loadCoins.
C6_CoinsRoundTrip15 == CoinsRoundTrip(2 ^ 4 - 1)

\* an amount of 15 bytes was stored and loaded back
C6_Witness ==
    /\ last.op = "loadCoins"
    /\ last.err = Ok
    /\ Len(last.ret.mag) = 15
    /\ Len(last.pre.bits) = 4 + 8 * 15

\* the layout of an address: 00 for none, else 10, anycast 0, the workchain as
\* 8 bits two's complement, the 32 bytes of the hash
AddressBits(a) ==
    IF a.none THEN <<0, 0>>
    ELSE <<1, 0, 0>> \o ByteBits((a.workchain + 256) % 256) \o BytesBits(a.hash)

\* C9: storeAddress appends exactly 00 for null and exactly the 267-bit layout for
\* an address; loadAddress gives the address back and consumes exactly those bits;
\* a leading flag other than 00 and 10 makes loadAddress fail with the flag error.
C9_AddressRoundTrip ==
    /\ (last.op = "storeAddress" /\ remainder(last.pre) >= Len(AddressBits(last.arg.v)))
       => (/\ last.err = Ok
           /\ b.bits = last.pre.bits \o AddressBits(last.arg.v)
           /\ Len(b.bits) - Len(last.pre.bits) = (IF last.arg.v.none THEN 2 ELSE 267)
           /\ b.refs = last.pre.refs)
    /\ (last.op = "loadAddress" /\ Loaded.kind = "address")
       => (/\ last.err = Ok
           /\ last.ret = Loaded.v
           /\ s.bits = Drop(last.pre.bits, IF Loaded.v.none THEN 2 ELSE 267)
           /\ s.refs = last.pre.refs)
    /\ (/\ last.op = "loadAddress"
        /\ Len(last.pre.bits) >= 2
        /\ SubSeq(last.pre.bits, 1, 2) \notin {<<0, 0>>, <<1, 0>>})
       => (last.err = BadAddressFlag /\ s = last.pre)

\* the address of workchain -1 with a hash of all 1 bits was stored and loaded back
C9_Witness ==
    /\ last.op = "loadAddress"
    /\ last.err = Ok
    /\ last.ret = Addr(-1, Fill((HashBits \div 8), 255))
    /\ Len(last.pre.bits) - Len(s.bits) = 267

\* a load of an address stopped at a flag that is neither 00 nor 10
BadFlagReached == last.op = "loadAddress" /\ last.err = BadAddressFlag

----------------------------------------------------------------------------
(* Padding: augmentBits, then rollbackBits of what it returned.            *)

BitSeqs(n) == UNION {[1..k -> {0, 1}] : k \in 0..n}

InitPad ==
    /\ b = NewBuilder(DefaultSize)
    /\ s = EmptySlice
    /\ orig = EmptySlice
    /\ last = Last("new", 0, Ok, b, 0, 0)
    /\ nops = 0
    /\ log = <<>>
    /\ pc = "pad"
    /\ pad \in {[in |-> bits, divider |-> d, aug |-> <<>>, out |-> <<>>, err |-> Ok] :
                    bits \in BitSeqs(MaxPadLen), d \in {4, 8}}
    /\ msg = NoMsg
    /\ heap = NoHeap

Augment ==
    /\ pc = "pad"
    /\ pad' = [pad EXCEPT !.aug = augmentBits(pad.in, pad.divider)]
    /\ pc' = "augmented"
    /\ UNCHANGED <<b, s, orig, last, nops, log, msg, heap>>

Rollback ==
    /\ pc = "augmented"
    /\ LET r == rollbackBits(pad.aug)
       IN  pad' = [pad EXCEPT !.out = r.bits, !.err = r.err]
    /\ pc' = "rolled"
    /\ UNCHANGED <<b, s, orig, last, nops, log, msg, heap>>

NextPad == Augment \/ Rollback

SpecPad == InitPad /\ [][NextPad]_vars

\* C4 (as stated): for every bit sequence and divisor 4 or 8,
\* rollbackBits(augmentBits(bits, divisor)) is the original bits.
C4_PaddingRoundTripAll == pc = "rolled" => (pad.err = Ok /\ pad.out = pad.in)

\* C4 (amended): for every bit sequence whose length is not a multiple of the
\* divisor, rollbackBits(augmentBits(bits, divisor)) is the original bits.
C4_PaddingRoundTripUnaligned ==
    (pc = "rolled" /\ Len(pad.in) % pad.divider # 0) => (pad.err = Ok /\ pad.out = pad.in)

\* bits ending in 1, 0 that are not aligned went through both functions
C4_Witness ==
    /\ pc = "rolled"
    /\ Len(pad.in) = 6
    /\ SubSeq(pad.in, 5, 6) = <<1, 0>>
    /\ pad.divider = 4
    /\ Len(pad.aug) = 8
    /\ pad.out = pad.in

\* the input followed by a 1 and then zeros only
IsPadded(in, aug) ==
    /\ Len(aug) > Len(in)
    /\ SubSeq(aug, 1, Len(in)) = in
    /\ aug[Len(in) + 1] = 1
    /\ \A i \in (Len(in) + 2)..Len(aug) : aug[i] = 0

\* C5 (as stated): the result of augmentBits is the input, a 1, then zeros; its
\* length is a multiple of the divisor greater than the input's; an aligned input
\* gets a whole block of divisor bits.
C5_PaddingNeverEmpty ==
    pc # "pad" =>
        /\ IsPadded(pad.in, pad.aug)
        /\ Len(pad.aug) % pad.divider = 0
        /\ Len(pad.in) % pad.divider = 0 => Len(pad.aug) = Len(pad.in) + pad.divider

\* C5 (amended): for an input whose length is not a multiple of the divisor the
\* result is the input, a 1, then zeros, up to the next multiple of the divisor;
\* an input whose length is a multiple of the divisor is returned as it is.
C5_PaddingToNextMultiple ==
    pc # "pad" =>
        /\ Len(pad.in) % pad.divider # 0 =>
              /\ IsPadded(pad.in, pad.aug)
              /\ Len(pad.aug) % pad.divider = 0
              /\ Len(pad.aug) - Len(pad.in) < pad.divider
        /\ Len(pad.in) % pad.divider = 0 => pad.aug = pad.in

\* five bits were padded to eight
C5_Witness ==
    /\ pc = "augmented"
    /\ Len(pad.in) = 5
    /\ pad.divider = 8
    /\ pad.aug = pad.in \o <<1, 0, 0>>

\* eight bits were handed to augmentBits with divisor 8
AlignedReached == pc = "augmented" /\ Len(pad.in) = 8 /\ pad.divider = 8 /\ Len(pad.aug) = 8

----------------------------------------------------------------------------
(* MessageX on headers, init nodes and body nodes of chosen sizes.         *)

\* nodes told apart by their bits: headers of 0s, init nodes of 1s, bodies of 0s
\* ending in a 1
NodeRefs == {[i \in 1..k |-> Leaf(i)] : k \in 0..MaxCellRefs}

InfoNodes == {Cell(Fill(n, 0), refs) : n \in {0, MsgInfoBits}, refs \in NodeRefs}

\* the most init bits that the longer header lets MessageX put inline
InitEdge == DefaultSize - MsgInfoBits - 2

InitNodes ==
    {Cell(Fill(n, 1), refs) :
        n \in {1, InitEdge - 2, InitEdge - 1, InitEdge, InitEdge + 1}, refs \in NodeRefs}

BodyNodes ==
    {Cell(Fill(n - 1, 0) \o <<1>>, refs) :
        n \in {1} \cup ((InitEdge - 2)..(InitEdge + 2)), refs \in NodeRefs}

Optional(S) == {<<>>} \cup {<<x>> : x \in S}

InitMsg ==
    /\ b = NewBuilder(DefaultSize)
    /\ s = EmptySlice
    /\ orig = EmptySlice
    /\ last = Last("new", 0, Ok, b, 0, 0)
    /\ nops = 0
    /\ log = <<>>
    /\ pc = "compose"
    /\ pad = NoPad
    /\ msg = NoMsg
    /\ heap = NoHeap

\* one call of MessageX; mid is the builder of the call when it reaches the body part
Compose ==
    /\ pc = "compose"
    /\ \E info \in InfoNodes, init \in Optional(InitNodes), body \in Optional(BodyNodes) :
          LET options == [info |-> info, init |-> init, body |-> body]
              r == MessageX(options)
          IN  msg' = [info |-> info, init |-> init, body |-> body,
                      mid |-> messageHead(options), out |-> r.out, err |-> r.err]
    /\ pc' = "done"
    /\ UNCHANGED <<b, s, orig, last, nops, log, pad, heap>>

NextMsg == Compose

SpecMsg == InitMsg /\ [][NextMsg]_vars

\* C7: with an init node, the envelope holds the header, a 1, and then, when the
\* capacity left minus one bit holds the init node's bits, a 0 and the init node's
\* bits and refs, with the body-presence bit still fitting, so that a message
\* without a body ends with a node; otherwise a 1 and the init node as a ref.
C7_InitPlacement ==
    (pc = "done" /\ msg.init # <<>>) =>
        LET init == msg.init[1]
            left == DefaultSize - Len(msg.info.bits) - 1
        IN  IF left - 1 >= Len(init.bits)
            THEN /\ msg.mid.err = Ok
                 /\ msg.mid.b.bits = msg.info.bits \o <<1, 0>> \o init.bits
                 /\ msg.mid.b.refs = msg.info.refs \o init.refs
                 /\ remainder(msg.mid.b) >= 1
                 /\ msg.body = <<>> => msg.err = Ok
            ELSE /\ msg.mid.err = Ok
                 /\ msg.mid.b.bits = msg.info.bits \o <<1, 1>>
                 /\ msg.mid.b.refs = Append(msg.info.refs, init)

\* C8: where the body part starts with room for its presence bit, a body whose bits
\* the capacity left can hold goes in behind a 0, with its refs, any other body
\* goes in as a ref behind a 1, no body gives a single 0, and the call ends with a
\* node.
C8_BodyPlacement ==
    (pc = "done" /\ msg.mid.err = Ok /\ remainder(msg.mid.b) >= 1) =>
        /\ msg.err = Ok
        /\ IF msg.body = <<>>
           THEN msg.out = Cell(Append(msg.mid.b.bits, 0), msg.mid.b.refs)
           ELSE IF remainder(msg.mid.b) >= Len(msg.body[1].bits)
                THEN msg.out = Cell(msg.mid.b.bits \o <<0>> \o msg.body[1].bits,
                                    msg.mid.b.refs \o msg.body[1].refs)
                ELSE msg.out = Cell(Append(msg.mid.b.bits, 1),
                                    Append(msg.mid.b.refs, msg.body[1]))

----------------------------------------------------------------------------
(* Slice under any sequence of calls.                                      *)

\* what a Builder holds after one store call
BitsOf(r) == r.b.bits

\* the bits a Slice starts with: every short sequence, and stored coins, addresses
\* and text with a bit before or after them
SliceBits ==
    BitSeqs(MaxSliceBits)
    \cup {<<1>> \o BitsOf(storeCoins(NewBuilder(DefaultSize), CoinsVal(FALSE, <<255>>))) \o <<1>>,
          BitsOf(storeCoins(NewBuilder(DefaultSize), CoinsVal(FALSE, <<1, 0>>))),
          BitsOf(storeAddress(NewBuilder(DefaultSize), Addr(-1, Fill((HashBits \div 8), 255)))) \o <<0, 0>>,
          BitsOf(storeString(NewBuilder(DefaultSize), <<65, 233>>))}

SliceRefs == {<<Leaf(1), Leaf(2)>>}

\* the small sizes, and a byte
SizeInputs == ((-1)..MaxSize) \cup {8}

InitSlice ==
    /\ b = NewBuilder(DefaultSize)
    /\ s \in {[bits |-> bits, refs |-> refs] : bits \in SliceBits, refs \in SliceRefs}
    /\ orig = s
    /\ last = Last("new", 0, Ok, s, 0, 0)
    /\ nops = 0
    /\ log = <<>>
    /\ pc = "read"
    /\ pad = NoPad
    /\ msg = NoMsg
    /\ heap = NoHeap

\* a call on the Slice that ended as r and, when it succeeds, is to consume k bits
Called(op, arg, r, k) ==
    /\ nops < MaxLoads
    /\ s' = r.s
    /\ last' = Last(op, arg, r.err, s, k, r.ret)
    /\ nops' = nops + 1
    /\ UNCHANGED <<b, orig, log, pc, pad, msg, heap>>

\* the number the first n bits of the Slice stand for (0 when there are fewer)
Lead(n) == IF Len(s.bits) < n THEN 0 ELSE bitsToUint(SubSeq(s.bits, 1, n))

Skip == \E n \in SizeInputs : Called("skip", n, skip(s, n), IF n < 0 THEN 0 ELSE n)
LoadRef == Called("loadRef", 0, loadRef(s), 0)
PreloadRef == Called("preloadRef", 0, preloadRef(s), 0)
LoadBit == Called("loadBit", 0, loadBit(s), 1)
PreloadBit == Called("preloadBit", 0, preloadBit(s), 0)
LoadBits == \E n \in SizeInputs : Called("loadBits", n, loadBits(s, n), n)
PreloadBits == \E n \in SizeInputs : Called("preloadBits", n, preloadBits(s, n), 0)
LoadInt == \E n \in SizeInputs : Called("loadInt", n, loadInt(s, n), n)
PreloadInt == \E n \in SizeInputs : Called("preloadInt", n, preloadInt(s, n), 0)
LoadUint == \E n \in SizeInputs : Called("loadUint", n, loadUint(s, n), n)
PreloadUint == \E n \in SizeInputs : Called("preloadUint", n, preloadUint(s, n), 0)
LoadBytes == \E n \in SizeInputs : Called("loadBytes", n, loadBytes(s, n), n)
PreloadBytes == \E n \in SizeInputs : Called("preloadBytes", n, preloadBytes(s, n), 0)
LoadString ==
    \E size \in Optional(SizeInputs) :
        Called("loadString", size, loadString(s, size),
               IF size = <<>> THEN Len(s.bits) ELSE size[1])
PreloadString ==
    \E size \in Optional(SizeInputs) : Called("preloadString", size, preloadString(s, size), 0)
LoadAddress == Called("loadAddress", 0, loadAddress(s), IF Lead(2) = 0 THEN 2 ELSE 267)
PreloadAddress == Called("preloadAddress", 0, preloadAddress(s), 0)
LoadCoins == Called("loadCoins", 0, loadCoins(s), 4 + 8 * Lead(4))
PreloadCoins == Called("preloadCoins", 0, preloadCoins(s), 0)

NextSlice ==
    \/ Skip
    \/ LoadRef \/ PreloadRef
    \/ LoadBit \/ PreloadBit
    \/ LoadBits \/ PreloadBits
    \/ LoadInt \/ PreloadInt
    \/ LoadUint \/ PreloadUint
    \/ LoadBytes \/ PreloadBytes
    \/ LoadString \/ PreloadString
    \/ LoadAddress \/ PreloadAddress
    \/ LoadCoins \/ PreloadCoins

SpecSlice == InitSlice /\ [][NextSlice]_vars

Preloads ==
    {"preloadRef", "preloadBit", "preloadBits", "preloadInt", "preloadUint",
     "preloadBytes", "preloadString", "preloadAddress", "preloadCoins"}

Loads ==
    {"skip", "loadRef", "loadBit", "loadBits", "loadInt", "loadUint", "loadBytes",
     "loadString", "loadAddress", "loadCoins"}

\* the load call that goes with a preload call, made on sl with the same input
Matching(op, sl, arg) ==
    CASE op = "preloadRef" -> loadRef(sl)
      [] op = "preloadBit" -> loadBit(sl)
      [] op = "preloadBits" -> loadBits(sl, arg)
      [] op = "preloadInt" -> loadInt(sl, arg)
      [] op = "preloadUint" -> loadUint(sl, arg)
      [] op = "preloadBytes" -> loadBytes(sl, arg)
      [] op = "preloadString" -> loadString(sl, arg)
      [] op = "preloadAddress" -> loadAddress(sl)
      [] op = "preloadCoins" -> loadCoins(sl)

IsSuffix(seq, whole) == Len(seq) <= Len(whole) /\ seq = Drop(whole, Len(whole) - Len(seq))

\* C10: a preload call leaves the Slice as it was and returns what the matching load
\* call returns from the same state; a load or skip call that succeeds removes
\* exactly the prefix it decoded; one that fails removes nothing; so the bits and
\* refs left are always a suffix of those the Slice was created with.
C10_LoadAndPreload ==
    /\ IsSuffix(s.bits, orig.bits)
    /\ IsSuffix(s.refs, orig.refs)
    /\ last.op \in Preloads =>
          /\ s = last.pre
          /\ last.err = Matching(last.op, last.pre, last.arg).err
          /\ last.err = Ok => last.ret = Matching(last.op, last.pre, last.arg).ret
    /\ (last.op \in Loads /\ last.err = Ok) =>
          /\ s.bits = Drop(last.pre.bits, last.k)
          /\ Len(last.pre.bits) - Len(s.bits) = last.k
          /\ s.refs = IF last.op = "loadRef" THEN Tail(last.pre.refs) ELSE last.pre.refs
          /\ last.op = "loadBits" => last.ret = SubSeq(last.pre.bits, 1, last.k)
    /\ (last.op \in Loads /\ last.err # Ok) => s = last.pre

\* an amount was peeked at on a Slice that had been read from before
C10_Witness ==
    /\ last.op = "preloadCoins"
    /\ last.err = Ok
    /\ last.ret = CoinsVal(FALSE, <<255>>)
    /\ Len(s.bits) < Len(orig.bits)

----------------------------------------------------------------------------
(* storeUint and storeInt on every value around the range of every width,  *)
(* on Builders with room and without.                                      *)

NumWidths == 0..MaxNumWidth

NumValues == (-(2 ^ MaxNumWidth) - 1)..(2 ^ MaxNumWidth + 1)

\* the small Builder at every fill, and the default one
InitNum ==
    /\ b \in {[NewBuilder(SmallCap) EXCEPT !.bits = Fill(k, 1)] : k \in 0..SmallCap}
             \cup {NewBuilder(DefaultSize)}
    /\ s = EmptySlice
    /\ orig = EmptySlice
    /\ last = Last("new", <<0, 0>>, Ok, b, 0, 0)
    /\ nops = 0
    /\ log = <<>>
    /\ pc = "number"
    /\ pad = NoPad
    /\ msg = NoMsg
    /\ heap = NoHeap

\* one call storeUint(value, length) or storeInt(value, length) that ended as r
StoredNumber(op, value, length, r) ==
    /\ pc = "number"
    /\ b' = r.b
    /\ last' = Last(op, <<value, length>>, r.err, b, length, 0)
    /\ pc' = "done"
    /\ UNCHANGED <<s, orig, nops, log, pad, msg, heap>>

StoreUintNumber ==
    \E value \in NumValues, length \in NumWidths :
        StoredNumber("storeUint", value, length, storeUint(b, value, length))

StoreIntNumber ==
    \E value \in NumValues, length \in NumWidths :
        StoredNumber("storeInt", value, length, storeInt(b, value, length))

NextNum == StoreUintNumber \/ StoreIntNumber

SpecNum == InitNum /\ [][NextNum]_vars

\* the value modulo 2^length as length bits, most significant first
TwosComplement(value, length) ==
    [i \in 1..length |-> ((value % (2 ^ length)) \div (2 ^ (length - i))) % 2]

\* value < 0 or value >= 2^length
OutOfUintRange(value, length) == value < 0 \/ value >= 2 ^ length

\* value < -2^(length-1) or value >= 2^(length-1), both sides doubled so that
\* length 0, where the bound is 1/2, is stated in integers
OutOfIntRange(value, length) == 2 * value < -(2 ^ length) \/ 2 * value >= 2 ^ length

\* the last call threw the range error exactly when outOfRange, whatever room the
\* Builder had, and a value in range was appended as its length bits when they fit
RangeChecked(outOfRange) ==
    LET value == last.arg[1]
        length == last.arg[2]
    IN  /\ last.err = RangeErr <=> outOfRange
        /\ (~outOfRange /\ length <= remainder(last.pre)) =>
              /\ last.err = Ok
              /\ b.bits = last.pre.bits \o TwosComplement(value, length)
              /\ b.refs = last.pre.refs
        /\ (~outOfRange /\ length > remainder(last.pre)) => last.err = BitOverflow

\* C11 as stated: storeUint throws the range error exactly when value < 0 or
\* value >= 2^length, storeInt exactly when value < -2^(length-1) or
\* value >= 2^(length-1), at every width, before the capacity is looked at; a value
\* accepted is appended as length bits, most significant first, in two's complement.
C11_RangeEveryWidth ==
    /\ last.op = "storeUint" => RangeChecked(OutOfUintRange(last.arg[1], last.arg[2]))
    /\ last.op = "storeInt" => RangeChecked(OutOfIntRange(last.arg[1], last.arg[2]))

\* C11 amended: the same, with storeInt's range holding for the widths from 1 on;
\* at width 0 storeInt throws the range error for every value, 0 included.
C11_RangeFromWidthOne ==
    /\ last.op = "storeUint" => RangeChecked(OutOfUintRange(last.arg[1], last.arg[2]))
    /\ (last.op = "storeInt" /\ last.arg[2] >= 1) =>
          RangeChecked(OutOfIntRange(last.arg[1], last.arg[2]))
    /\ (last.op = "storeInt" /\ last.arg[2] = 0) => (last.err = RangeErr /\ b = last.pre)

\* storeInt of 2^(n-1) at the widest width n was refused for its range by a Builder
\* that has no room for n bits either
C11_Witness ==
    /\ last.op = "storeInt"
    /\ last.arg = <<2 ^ (MaxNumWidth - 1), MaxNumWidth>>
    /\ remainder(last.pre) < MaxNumWidth
    /\ last.err = RangeErr
    /\ b = last.pre

\* storeInt of the least value of a width was accepted as a 1 followed by zeros
NegativeEdgeStored ==
    /\ last.op = "storeInt"
    /\ last.arg = <<-(2 ^ (MaxNumWidth - 1)), MaxNumWidth>>
    /\ last.err = Ok
    /\ b.bits = <<1>> \o Fill(MaxNumWidth - 1, 0)

----------------------------------------------------------------------------
(* Builders, their clones and the nodes they return, as objects that hold  *)
(* arrays of one heap: a store pushes onto the arrays its Builder holds.   *)

\* the heap with one more array, which gets the next index
Alloc(hp, seq) == [hp EXCEPT !.arrays = Append(@, seq)]

\* a Builder read as a value: its capacity and the elements of its two arrays
View(hp, bld) ==
    [size |-> bld.size, bits |-> hp.arrays[bld.bits], refs |-> hp.arrays[bld.refs]]

Views(hp) == [j \in 1..Len(hp.builders) |-> View(hp, hp.builders[j])]

\* constructor: this._bits = [], this._refs = []
newBuilder(hp, size) ==
    [heap |-> Alloc(Alloc(hp, <<>>), <<>>),
     ref |-> [size |-> size, bits |-> Len(hp.arrays) + 1, refs |-> Len(hp.arrays) + 2]]

\* Faulty variant: the getter hands out the Builder's own array
getBitsShared(hp, bld) == [heap |-> hp, id |-> bld.bits]

\* get bits: Array.from(this._bits), a new array
getBits(hp, bld) == [heap |-> Alloc(hp, hp.arrays[bld.bits]), id |-> Len(hp.arrays) + 1]

\* get refs: Array.from(this._refs), a new array
getRefs(hp, bld) == [heap |-> Alloc(hp, hp.arrays[bld.refs]), id |-> Len(hp.arrays) + 1]

\* a store method that ended as r on the value of bld: its pushes land in the arrays
\* bld holds
storeIn(hp, bld, r) ==
    [hp EXCEPT !.arrays = [@ EXCEPT ![bld.bits] = r.b.bits, ![bld.refs] = r.b.refs]]

\* cell(): new Cell(this.bits, this.refs, false); the node holds the arrays it is given
cellOf(hp, bld) ==
    LET bits == getBits(hp, bld)
        refs == getRefs(bits.heap, bld)
    IN  [heap |-> refs.heap, cell |-> [bits |-> bits.id, refs |-> refs.id]]

\* clone(): new Builder(this._size), then storeBits(Array.from(this._bits)) on it
clone(hp, bld) ==
    LET data == newBuilder(hp, bld.size)
        copy == Alloc(data.heap, hp.arrays[bld.bits])
        r == storeBits(View(copy, data.ref), copy.arrays[Len(copy.arrays)])
    IN  [heap |-> storeIn(copy, data.ref, r), ref |-> data.ref, err |-> r.err]

InitSnap ==
    /\ b = NewBuilder(DefaultSize)
    /\ s = EmptySlice
    /\ orig = EmptySlice
    /\ last = Last("new", 0, Ok, <<>>, 0, 0)
    /\ nops = 0
    /\ log = <<>>
    /\ pc = "snap"
    /\ pad = NoPad
    /\ msg = NoMsg
    /\ \E size \in Capacities :
          LET n == newBuilder(NoHeap, size)
          IN  heap = [n.heap EXCEPT !.builders = <<n.ref>>]

\* a call op on Builder number i that ended with err and left the heap hp
Snapped(op, i, err, hp) ==
    /\ pc = "snap"
    /\ nops < MaxSnapOps
    /\ heap' = hp
    /\ last' = Last(op, i, err, Views(heap), 0, 0)
    /\ nops' = nops + 1
    /\ UNCHANGED <<b, s, orig, log, pc, pad, msg>>

\* a store call on Builder number i that ended as r
SnapStored(op, i, r) == Snapped(op, i, r.err, storeIn(heap, heap.builders[i], r))

SnapStoreBit ==
    \E i \in 1..Len(heap.builders), bit \in {0, 1} :
        SnapStored("storeBit", i, storeBit(View(heap, heap.builders[i]), bit))

SnapStoreBits ==
    \E i \in 1..Len(heap.builders) :
        SnapStored("storeBits", i, storeBits(View(heap, heap.builders[i]), <<1, 2>>))

SnapStoreRef ==
    \E i \in 1..Len(heap.builders), ref \in RefInputs :
        SnapStored("storeRef", i, storeRef(View(heap, heap.builders[i]), ref))

\* cell() on Builder number i; was is the node's content as it was returned
SnapCell ==
    \E i \in 1..Len(heap.builders) :
        LET c == cellOf(heap, heap.builders[i])
            was == Cell(c.heap.arrays[c.cell.bits], c.heap.arrays[c.cell.refs])
        IN  Snapped("cell", i, Ok,
                    [c.heap EXCEPT !.cells =
                        Append(@, [bits |-> c.cell.bits, refs |-> c.cell.refs, was |-> was])])

\* clone() on Builder number i
SnapClone ==
    \E i \in 1..Len(heap.builders) :
        LET c == clone(heap, heap.builders[i])
        IN  Snapped("clone", i, c.err, [c.heap EXCEPT !.builders = Append(@, c.ref)])

NextSnap == SnapStoreBit \/ SnapStoreBits \/ SnapStoreRef \/ SnapCell \/ SnapClone

SpecSnap == InitSnap /\ [][NextSnap]_vars

SnapStores == {"storeBit", "storeBits", "storeRef"}

----------------------------------------------------------------------------
(* IntMsgInfo$0 on options given and left out.                             *)

\* an option left out, <<>>, takes its default
OrDefault(opt, default) == IF opt = <<>> THEN default ELSE opt[1]

\* bool ? -1 : 0
BoolInt(flag) == IF flag THEN -1 ELSE 0

\* Faulty variant: the bit of the empty extra-currency collection is left out
IntMsgInfo0NoExtra(options) ==
    LET zeroCoins == CoinsVal(FALSE, <<>>)
        ihrDisabled == OrDefault(options.ihrDisabled, TRUE)
        bounced == OrDefault(options.bounced, FALSE)
        ihrFee == OrDefault(options.ihrFee, zeroCoins)
        fwdFee == OrDefault(options.fwdFee, zeroCoins)
        createdLt == OrDefault(options.createdLt, 0)
        createdAt == OrDefault(options.createdAt, 0)
        r1 == storeBit(NewBuilder(DefaultSize), 0)
        r2 == Then(r1, LAMBDA x : storeInt(x, BoolInt(ihrDisabled), 1))
        r3 == Then(r2, LAMBDA x : storeInt(x, BoolInt(options.bounce), 1))
        r4 == Then(r3, LAMBDA x : storeInt(x, BoolInt(bounced), 1))
        r5 == Then(r4, LAMBDA x : storeAddress(x, options.src))
        r6 == Then(r5, LAMBDA x : storeAddress(x, options.dest))
        r7 == Then(r6, LAMBDA x : storeCoins(x, options.value))
        r9 == Then(r7, LAMBDA x : storeCoins(x, ihrFee))
        r10 == Then(r9, LAMBDA x : storeCoins(x, fwdFee))
        r11 == Then(r10, LAMBDA x : storeUint(x, createdLt, 64))
        r12 == Then(r11, LAMBDA x : storeUint(x, createdAt, 32))
    IN  [out |-> IF r12.err = Ok THEN cell(r12.b) ELSE Cell(<<>>, <<>>), err |-> r12.err]

\* IntMsgInfo$0(options): the options left out are <<>>, the others <<value>>; the
\* result is the node returned, or the error thrown
IntMsgInfo0(options) ==
    LET zeroCoins == CoinsVal(FALSE, <<>>)
        ihrDisabled == OrDefault(options.ihrDisabled, TRUE)
        bounced == OrDefault(options.bounced, FALSE)
        ihrFee == OrDefault(options.ihrFee, zeroCoins)
        fwdFee == OrDefault(options.fwdFee, zeroCoins)
        createdLt == OrDefault(options.createdLt, 0)
        createdAt == OrDefault(options.createdAt, 0)
        r1 == storeBit(NewBuilder(DefaultSize), 0)
        r2 == Then(r1, LAMBDA x : storeInt(x, BoolInt(ihrDisabled), 1))
        r3 == Then(r2, LAMBDA x : storeInt(x, BoolInt(options.bounce), 1))
        r4 == Then(r3, LAMBDA x : storeInt(x, BoolInt(bounced), 1))
        r5 == Then(r4, LAMBDA x : storeAddress(x, options.src))
        r6 == Then(r5, LAMBDA x : storeAddress(x, options.dest))
        r7 == Then(r6, LAMBDA x : storeCoins(x, options.value))
        r8 == Then(r7, LAMBDA x : storeBit(x, 0))
        r9 == Then(r8, LAMBDA x : storeCoins(x, ihrFee))
        r10 == Then(r9, LAMBDA x : storeCoins(x, fwdFee))
        r11 == Then(r10, LAMBDA x : storeUint(x, createdLt, 64))
        r12 == Then(r11, LAMBDA x : storeUint(x, createdAt, 32))
    IN  [out |-> IF r12.err = Ok THEN cell(r12.b) ELSE Cell(<<>>, <<>>), err |-> r12.err]

\* a logical time below 0 and one of 31 bits
LtInputs == {-1, 2 ^ 30 + 5}

InfoOptions ==
    [ihrDisabled : Optional(BOOLEAN),
     bounce : BOOLEAN,
     bounced : Optional({TRUE}),
     src : {NoAddress, Addr(-1, Fill(HashBits \div 8, 255))},
     dest : {Addr(0, [i \in 1..(HashBits \div 8) |-> i])},
     value : {CoinsVal(TRUE, <<1>>), CoinsVal(FALSE, <<>>), CoinsVal(FALSE, Fill(15, 255))},
     ihrFee : Optional({CoinsVal(FALSE, <<7>>)}),
     fwdFee : Optional({CoinsVal(FALSE, <<1, 0>>)}),
     createdLt : Optional(LtInputs),
     createdAt : Optional({1})]

InitInfo ==
    /\ b = NewBuilder(DefaultSize)
    /\ s = EmptySlice
    /\ orig = EmptySlice
    /\ last = Last("new", 0, Ok, b, 0, 0)
    /\ nops = 0
    /\ log = <<>>
    /\ pc = "info"
    /\ pad = NoPad
    /\ msg = NoMsg
    /\ heap = NoHeap

\* one call of IntMsgInfo$0
ComposeInfo ==
    /\ pc = "info"
    /\ \E options \in InfoOptions :
          LET r == IntMsgInfo0(options)
          IN  msg' = [options |-> options, out |-> r.out, err |-> r.err]
    /\ pc' = "done"
    /\ UNCHANGED <<b, s, orig, last, nops, log, pad, heap>>

NextInfo == ComposeInfo

SpecInfo == InitInfo /\ [][NextInfo]_vars

\* a flag as its single bit
FlagBit(flag) == IF flag THEN <<1>> ELSE <<0>>

\* a number from 0 to 2^31 - 1 as length bits, most significant first
BigEndian(value, length) ==
    [i \in 1..length |-> IF length - i > 30 THEN 0 ELSE (value \div (2 ^ (length - i))) % 2]

\* options every field of which has a layout: amounts from 0 up to 15 bytes, times
\* not below 0
InfoEncodable(o) ==
    /\ \A c \in {o.value, OrDefault(o.ihrFee, CoinsVal(FALSE, <<>>)),
                 OrDefault(o.fwdFee, CoinsVal(FALSE, <<>>))} : ~c.neg /\ Len(c.mag) <= 15
    /\ OrDefault(o.createdLt, 0) >= 0
    /\ OrDefault(o.createdAt, 0) >= 0

InfoLayout(o) ==
    <<0>> \o FlagBit(OrDefault(o.ihrDisabled, TRUE)) \o FlagBit(o.bounce)
        \o FlagBit(OrDefault(o.bounced, FALSE))
        \o AddressBits(o.src) \o AddressBits(o.dest)
        \o CoinsBits(o.value)
        \o <<0>>
        \o CoinsBits(OrDefault(o.ihrFee, CoinsVal(FALSE, <<>>)))
        \o CoinsBits(OrDefault(o.fwdFee, CoinsVal(FALSE, <<>>)))
        \o BigEndian(OrDefault(o.createdLt, 0), 64)
        \o BigEndian(OrDefault(o.createdAt, 0), 32)

\* C13: IntMsgInfo$0 returns a node without refs whose bits are the discriminator 0,
\* ihr-disabled (1 when left out), bounce, bounced (0 when left out), each flag one
\* bit, 1 for true; the source and the destination address; the value; a 0; ihrFee
\* and fwdFee (the 4-bit 0 when left out); the creation logical time in 64 bits and
\* the creation timestamp in 32 bits (zeros when left out).
C13_IntMsgInfoLayout ==
    pc = "done" =>
        /\ InfoEncodable(msg.options) => msg.err = Ok
        /\ msg.err = Ok => msg.out = Cell(InfoLayout(msg.options), <<>>)

\* a header was returned with ihr-disabled and bounced left out, fees left out and
\* both times given
C13_Witness ==
    /\ pc = "done"
    /\ msg.err = Ok
    /\ msg.options.ihrDisabled = <<>>
    /\ msg.options.bounced = <<>>
    /\ msg.options.bounce
    /\ msg.options.ihrFee = <<>>
    /\ msg.options.fwdFee = <<>>
    /\ msg.options.createdLt = <<2 ^ 30 + 5>>
    /\ msg.options.createdAt = <<1>>
    /\ Len(msg.out.bits) = 4 + 2 + AddressBitsSize + 4 + 1 + 4 + 4 + 64 + 32

====
